---- MODULE Spec2Model ----
(***************************************************************************)
(* Duty scheduling and live-presence engine of the police server           *)
(* (src/index.js): the Duty collection, POST /api/assign-duty with its     *)
(* conflict queries and SMS dispatch, and POST /api/checkin.               *)
(*                                                                         *)
(* Instants are minutes since day 0, 00:00.  A date string of a request is *)
(* a pair [day, minute]; a date-only string has minute 0.  Coordinates are *)
(* integers in units of one metre of arc on the great circle of radius     *)
(* R = 6371000 m, that is 180 / (pi * R) degree.                           *)
(***************************************************************************)
EXTENDS Integers, Sequences, FiniteSets, Bags, TLC

VARIABLES duties, sms, resp, now, inflight, users

vars == <<duties, sms, resp, now, inflight, users>>

----------------------------------------------------------------------------
(* Bounds of the model *)

MaxDuties == 2
MaxDay == 2

\* the number of police users created in a run
MaxUsers == 2

----------------------------------------------------------------------------
(* Values *)

MinutesPerDay == 24 * 60

\* a Date field that is absent from a document (fromDate/toDate are optional)
NoDate == -1

\* a Number field that is absent from a document (livexCoord before any ping)
NoCoord == -1000000

Days == 0 .. MaxDay

\* new Date(s): the instant a date string denotes
NewDate(s) == s.day * MinutesPerDay + s.minute

\* the calendar day an instant falls on
DayOf(t) == t \div MinutesPerDay

DateOnly(d) == [day |-> d, minute |-> 0]
DateTime(d, m) == [day |-> d, minute |-> m]

\* the status compared as it was sent, without folding its case
toLowerCase_CaseSensitive(s) == s

\* String.prototype.toLowerCase on the status strings of the model
toLowerCase(s) ==
  CASE s = "Active" -> "active"
    [] s = "ACTIVE" -> "active"
    [] s = "Inactive" -> "inactive"
    [] OTHER -> s

\* an optional string of the request body: undefined, or a string of digits
Undefined == [defined |-> FALSE, value |-> <<>>]
Str(s) == [defined |-> TRUE, value |-> s]

\* String.prototype.slice(-n): the last n characters (all when shorter)
SliceLast(s, n) ==
  IF Len(s) <= n THEN s ELSE SubSeq(s, Len(s) - n + 1, Len(s))

----------------------------------------------------------------------------
(* The Duty collection: a bag of documents *)

\* the fields Duty.findOne of assign-duty scopes its conflict queries by
SameScope(d, r) ==
  /\ d.badgeNumber = r.badgeNumber
  /\ d.batchNumber = r.batchNumber
  /\ d.shift = r.shift

\* the range query with $lt in place of $lte
MultipleConflictDocs_EndExclusive(store, r) ==
  { d \in BagToSet(store) :
      /\ d.badgeNumber = r.badgeNumber
      /\ d.batchNumber = r.batchNumber
      /\ d.shift = r.shift
      /\ d.dutyDate >= NewDate(r.fromDate)
      /\ d.dutyDate < NewDate(r.toDate) }

\* Duty.findOne({badgeNumber, dutyDate: {$gte: start, $lte: end}, batchNumber, shift})
MultipleConflictDocs(store, r) ==
  { d \in BagToSet(store) :
      /\ SameScope(d, r)
      /\ d.dutyDate >= NewDate(r.fromDate)
      /\ d.dutyDate <= NewDate(r.toDate) }

\* the single query without the shift field
SingleConflictDocs_AnyShift(store, r) ==
  { d \in BagToSet(store) :
      /\ d.badgeNumber = r.badgeNumber
      /\ d.batchNumber = r.batchNumber
      /\ d.dutyDate = NewDate(r.dutyDate) }

\* Duty.findOne({badgeNumber, dutyDate: date, batchNumber, shift})
SingleConflictDocs(store, r) ==
  { d \in BagToSet(store) :
      /\ SameScope(d, r)
      /\ d.dutyDate = NewDate(r.dutyDate) }

ConflictDocs(store, r) ==
  IF r.dutyType = "multiple"
    THEN MultipleConflictDocs(store, r)
    ELSE SingleConflictDocs(store, r)

\* the multiple document with dutyDate taken from toDate
MultipleDuty_DutyDateIsToDate(r) ==
  [ badgeNumber |-> r.badgeNumber,
    batchNumber |-> r.batchNumber,
    shift       |-> r.shift,
    status      |-> r.status,
    location    |-> r.location,
    dutyType    |-> r.dutyType,
    dutyDate    |-> NewDate(r.toDate),
    fromDate    |-> NewDate(r.fromDate),
    toDate      |-> NewDate(r.toDate),
    xCoord      |-> r.xCoord,
    yCoord      |-> r.yCoord,
    livexCoord  |-> NoCoord,
    liveyCoord  |-> NoCoord,
    remarks     |-> r.remarks ]

\* new Duty({...}) of the multiple branch
MultipleDuty(r) ==
  [ badgeNumber |-> r.badgeNumber,
    batchNumber |-> r.batchNumber,
    shift       |-> r.shift,
    status      |-> r.status,
    location    |-> r.location,
    dutyType    |-> r.dutyType,
    dutyDate    |-> NewDate(r.fromDate),
    fromDate    |-> NewDate(r.fromDate),
    toDate      |-> NewDate(r.toDate),
    xCoord      |-> r.xCoord,
    yCoord      |-> r.yCoord,
    livexCoord  |-> NoCoord,
    liveyCoord  |-> NoCoord,
    remarks     |-> r.remarks ]

\* new Duty({...}) of the single branch
SingleDuty(r) ==
  [ badgeNumber |-> r.badgeNumber,
    batchNumber |-> r.batchNumber,
    shift       |-> r.shift,
    status      |-> r.status,
    location    |-> r.location,
    dutyType    |-> r.dutyType,
    dutyDate    |-> NewDate(r.dutyDate),
    fromDate    |-> NoDate,
    toDate      |-> NoDate,
    xCoord      |-> r.xCoord,
    yCoord      |-> r.yCoord,
    livexCoord  |-> NoCoord,
    liveyCoord  |-> NoCoord,
    remarks     |-> r.remarks ]

NewDuty(r) ==
  IF r.dutyType = "multiple" THEN MultipleDuty(r) ELSE SingleDuty(r)

\* a save against a unique index over whole documents: a duplicate is refused
SaveNew_UniqueIndex(store, d) ==
  IF BagIn(d, store) THEN store ELSE store (+) SetToBag({d})

\* duty.save() of a new document
SaveNew(store, d) == store (+) SetToBag({d})

\* the object handed to vonage.sms.send
SmsMessage(r) ==
  [ to   |-> <<9, 2>> \o SliceLast(r.contact.value, 10),
    from |-> "PoliceDept" ]

----------------------------------------------------------------------------
(* Responses *)

NoResponse == [op |-> "none", code |-> 0, message |-> "none", finds |-> 0]

\* a response: the operation answered, the HTTP status code, the message of
\* the body, and the number of store queries the handler issued before it
Response(op, code, message, finds) ==
  [op |-> op, code |-> code, message |-> message, finds |-> finds]

MsgNotActive == "Status is not active"
MsgConflictMultiple == "Conflict: policeman already assigned between"
MsgConflictSingle ==
  "Policeman already assigned to another location on this day and shift"
MsgAssigned == "Duty assigned successfully"
MsgServerError == "Server error"

\* the two conflict responses differ in their message
ConflictResponse(r) ==
  IF r.dutyType = "multiple"
    THEN Response("assignDuty", 400, MsgConflictMultiple, 1)
    ELSE Response("assignDuty", 400, MsgConflictSingle, 1)

----------------------------------------------------------------------------
(* Request bodies *)

BaseScope ==
  [badgeNumber |-> "B100", batchNumber |-> "1", shift |-> "9am to 5pm"]

\* the three triples that differ from BaseScope in exactly one component
OtherScopes ==
  { [BaseScope EXCEPT !.badgeNumber = "B200"],
    [BaseScope EXCEPT !.batchNumber = "2"],
    [BaseScope EXCEPT !.shift = "9pm to 6am"] }

Phone == Str(<<0, 3, 3, 6, 3, 5, 0, 6, 9, 3, 3>>)

\* dutyDate strings: every day as a date-only string, and day 1 at 09:00
DutyDates == { DateOnly(d) : d \in Days } \cup { DateTime(1, 9 * 60) }

\* fromDate/toDate strings: date-only, fromDate before toDate
Ranges ==
  { <<DateOnly(p[1]), DateOnly(p[2])>> :
      p \in { q \in Days \X Days : q[1] < q[2] } }

\* a date string the request body does not carry
NoDateStr == [day |-> 0, minute |-> 0]

SingleBody(scope, status, contact, dutyDate) ==
  [ badgeNumber |-> scope.badgeNumber,
    batchNumber |-> scope.batchNumber,
    shift       |-> scope.shift,
    status      |-> status,
    location    |-> "Station A",
    contact     |-> contact,
    dutyType    |-> "single",
    dutyDate    |-> dutyDate,
    fromDate    |-> NoDateStr,
    toDate      |-> NoDateStr,
    xCoord      |-> 0,
    yCoord      |-> 0,
    remarks     |-> "assigned" ]

MultipleBody(scope, status, contact, range) ==
  [ badgeNumber |-> scope.badgeNumber,
    batchNumber |-> scope.batchNumber,
    shift       |-> scope.shift,
    status      |-> status,
    location    |-> "Station A",
    contact     |-> contact,
    dutyType    |-> "multiple",
    dutyDate    |-> NoDateStr,
    fromDate    |-> range[1],
    toDate      |-> range[2],
    xCoord      |-> 0,
    yCoord      |-> 0,
    remarks     |-> "assigned" ]

\* the request bodies of /api/assign-duty: every date on BaseScope, and one
\* single and one multiple body for each variation of scope, of the spelling
\* of the status and of the presence of contact
AssignBodies ==
  { SingleBody(BaseScope, "Active", Phone, d) : d \in DutyDates }
  \cup
  { MultipleBody(BaseScope, "Active", Phone, rg) : rg \in Ranges }
  \cup
  { SingleBody(sc, "Active", Phone, DateOnly(1)) : sc \in OtherScopes }
  \cup
  { MultipleBody(sc, "Active", Phone, <<DateOnly(0), DateOnly(MaxDay)>>) :
      sc \in OtherScopes }
  \cup
  { SingleBody(BaseScope, st, c, DateOnly(1)) :
      st \in {"active", "Inactive"}, c \in {Phone, Undefined} }
  \cup
  { MultipleBody(BaseScope, st, c, <<DateOnly(0), DateOnly(MaxDay)>>) :
      st \in {"Inactive"}, c \in {Phone, Undefined} }
  \cup
  { SingleBody(BaseScope, "Active", Undefined, DateOnly(0)) }

----------------------------------------------------------------------------
(* POST /api/assign-duty, run to completion *)

\* the collection accepts one more document (bound of the model)
HasRoom(store) == BagCardinality(store) < MaxDuties

\* the notifier accepts one more message (bound of the model)
NotifierHasRoom(pending) == BagCardinality(pending) < MaxDuties

\* status check fails: 400 before any query
AssignNotActive(r) ==
  /\ toLowerCase(r.status) # "active"
  /\ resp' = Response("assignDuty", 400, MsgNotActive, 0)
  /\ UNCHANGED <<duties, sms, now, inflight, users>>

\* the conflict answered only after the SMS has been handed to the notifier
AssignConflict_NotifiesFirst(r) ==
  /\ toLowerCase(r.status) = "active"
  /\ ConflictDocs(duties, r) # {}
  /\ r.contact.defined
  /\ BagCardinality(sms) < MaxDuties
  /\ sms' = sms (+) SetToBag({SmsMessage(r)})
  /\ resp' = ConflictResponse(r)
  /\ UNCHANGED <<duties, now, inflight, users>>

\* the conflict query finds a document: 400, nothing written
AssignConflict(r) ==
  /\ toLowerCase(r.status) = "active"
  /\ ConflictDocs(duties, r) # {}
  /\ resp' = ConflictResponse(r)
  /\ UNCHANGED <<duties, sms, now, inflight, users>>

\* no conflict: the document is saved, the SMS is handed to the notifier and
\* the success response is sent
AssignSaved(r) ==
  /\ toLowerCase(r.status) = "active"
  /\ ConflictDocs(duties, r) = {}
  /\ HasRoom(duties)
  /\ r.contact.defined
  /\ NotifierHasRoom(sms)
  /\ duties' = SaveNew(duties, NewDuty(r))
  /\ sms' = sms (+) SetToBag({SmsMessage(r)})
  /\ resp' = Response("assignDuty", 200, MsgAssigned, 1)
  /\ UNCHANGED <<now, inflight, users>>

\* no conflict, contact missing: the document is saved, then contact.slice
\* throws a TypeError, which the catch block answers with 500
AssignSavedThenThrows(r) ==
  /\ toLowerCase(r.status) = "active"
  /\ ConflictDocs(duties, r) = {}
  /\ HasRoom(duties)
  /\ ~ r.contact.defined
  /\ duties' = SaveNew(duties, NewDuty(r))
  /\ resp' = Response("assignDuty", 500, MsgServerError, 1)
  /\ UNCHANGED <<sms, now, inflight, users>>

AssignDuty(r) ==
  \/ AssignNotActive(r)
  \/ AssignConflict(r)
  \/ AssignSaved(r)
  \/ AssignSavedThenThrows(r)

\* the callback of vonage.sms.send: logs err or responseData
SmsCallback(m, err) ==
  /\ BagIn(m, sms)
  /\ sms' = sms (-) SetToBag({m})
  /\ UNCHANGED <<duties, resp, now, inflight, users>>

----------------------------------------------------------------------------
(* POST /api/assign-duty as concurrent requests: the handler of a request  *)
(* gives up control at each await, where the other request may run         *)

Procs == {1, 2}

Idle == [pc |-> "idle"]

\* the handler runs up to `await Duty.findOne(...)`: the status check, and
\* the conflict query against the collection as it is now
RaceFind(p, r) ==
  /\ inflight[p].pc = "idle"
  /\ \/ /\ toLowerCase(r.status) # "active"
        /\ resp' = Response("assignDuty", 400, MsgNotActive, 0)
        /\ UNCHANGED inflight
     \/ /\ toLowerCase(r.status) = "active"
        /\ inflight' = [inflight EXCEPT ![p] =
             [pc |-> "found", body |-> r,
              conflict |-> ConflictDocs(duties, r) # {}]]
        /\ UNCHANGED resp
  /\ UNCHANGED <<duties, sms, now, users>>

\* the query returned a document: 400
RaceConflict(p) ==
  /\ inflight[p].pc = "found"
  /\ inflight[p].conflict
  /\ resp' = ConflictResponse(inflight[p].body)
  /\ inflight' = [inflight EXCEPT ![p] = Idle]
  /\ UNCHANGED <<duties, sms, now, users>>

\* the query returned null: the handler runs up to `await duty.save()`
RaceSave(p) ==
  /\ inflight[p].pc = "found"
  /\ ~ inflight[p].conflict
  /\ HasRoom(duties)
  /\ duties' = SaveNew(duties, NewDuty(inflight[p].body))
  /\ inflight' = [inflight EXCEPT ![p].pc = "saved"]
  /\ UNCHANGED <<sms, resp, now, users>>

\* after the save: the SMS and the response, or the TypeError and the 500
RaceNotify(p) ==
  /\ inflight[p].pc = "saved"
  /\ \/ /\ inflight[p].body.contact.defined
        /\ sms' = sms (+) SetToBag({SmsMessage(inflight[p].body)})
        /\ resp' = Response("assignDuty", 200, MsgAssigned, 1)
     \/ /\ ~ inflight[p].body.contact.defined
        /\ resp' = Response("assignDuty", 500, MsgServerError, 1)
        /\ UNCHANGED sms
  /\ inflight' = [inflight EXCEPT ![p] = Idle]
  /\ UNCHANGED <<duties, now, users>>

\* the request bodies of the concurrent requests
RaceBodies ==
  { SingleBody(BaseScope, "Active", Phone, DateOnly(d)) : d \in Days }
  \cup
  { MultipleBody(BaseScope, "Active", Phone, <<DateOnly(0), DateOnly(MaxDay)>>),
    SingleBody(BaseScope, "Active", Undefined, DateOnly(0)),
    SingleBody(BaseScope, "Inactive", Phone, DateOnly(0)) }

----------------------------------------------------------------------------
(* POST /api/checkin *)

\* the result of arithmetic on an absent coordinate
NaN == -1

\* the integer square root of n, searched in lo .. hi
RECURSIVE Root(_, _, _)
Root(n, lo, hi) ==
  IF lo >= hi THEN lo
  ELSE LET mid == (lo + hi + 1) \div 2
       IN  IF mid * mid <= n THEN Root(n, mid, hi) ELSE Root(n, lo, mid - 1)

\* getDistanceFromLatLonInMeters, in whole metres, for points whose distance
\* is small against R and which lie near latitude 0, where the haversine
\* formula reduces to R * sqrt(dLat^2 + dLon^2) (exactly so for two points of
\* latitude 0); one unit of coordinate spans one metre
getDistanceFromLatLonInMeters(lat1, lon1, lat2, lon2) ==
  IF NoCoord \in {lat1, lon1, lat2, lon2} THEN NaN
  ELSE LET sq == (lat2 - lat1) * (lat2 - lat1) + (lon2 - lon1) * (lon2 - lon1)
       IN  Root(sq, 0, IF sq < 46340 THEN sq ELSE 46340)

\* the radius inside which a ping counts as on duty
RangeMetres == 500

\* distance > 500, false for NaN
OutsideRange_AtBoundary(distance) ==
  distance # NaN /\ distance >= RangeMetres

OutsideRange(distance) == distance # NaN /\ distance > RangeMetres

MsgDutyNotFound == "Duty record not found"

\* the document after the check-in has been recorded on it
CheckedIn_KeepsActive(d, currentX, currentY, currentTime) ==
  LET distance ==
        getDistanceFromLatLonInMeters(d.xCoord, d.yCoord, currentX, currentY)
  IN  [d EXCEPT
         !.remarks = IF OutsideRange(distance)
                       THEN "user is outside range" ELSE "",
         !.status = IF OutsideRange(distance) THEN "off duty" ELSE @,
         !.livexCoord = currentX,
         !.liveyCoord = currentY,
         !.dutyDate = NewDate(currentTime)]

CheckedIn_OnDutyOnly(d, currentX, currentY, currentTime) ==
  LET distance ==
        getDistanceFromLatLonInMeters(d.xCoord, d.yCoord, currentX, currentY)
  IN  [d EXCEPT
         !.remarks = IF OutsideRange(distance)
                       THEN "user is outside range" ELSE "",
         !.status = IF OutsideRange(distance) THEN "off duty" ELSE "on duty",
         !.livexCoord = IF OutsideRange(distance) THEN @ ELSE currentX,
         !.liveyCoord = IF OutsideRange(distance) THEN @ ELSE currentY,
         !.dutyDate = NewDate(currentTime)]

CheckedIn(d, currentX, currentY, currentTime) ==
  LET distance ==
        getDistanceFromLatLonInMeters(d.xCoord, d.yCoord, currentX, currentY)
  IN  [d EXCEPT
         !.remarks = IF OutsideRange(distance)
                       THEN "user is outside range" ELSE "",
         !.status = IF OutsideRange(distance) THEN "off duty" ELSE "on duty",
         !.livexCoord = currentX,
         !.liveyCoord = currentY,
         !.dutyDate = NewDate(currentTime)]

CheckInResponse(d, distance) ==
  [ op       |-> "checkIn",
    code     |-> 200,
    message  |-> IF OutsideRange(distance)
                   THEN "User outside range" ELSE "User on duty",
    finds    |-> 1,
    success  |-> distance # NaN /\ distance <= RangeMetres,
    distance |-> distance,
    remarks  |-> d.remarks,
    status   |-> d.status ]

\* Duty.findOne({badgeNumber}): any document of the officer
DutiesOfBadge(store, badgeNumber) ==
  { d \in BagToSet(store) : d.badgeNumber = badgeNumber }

CheckInNotFound(badgeNumber) ==
  /\ DutiesOfBadge(duties, badgeNumber) = {}
  /\ resp' = Response("checkIn", 404, MsgDutyNotFound, 1)
  /\ UNCHANGED <<duties, sms, now, inflight, users>>

CheckInRecorded(badgeNumber, currentX, currentY, currentTime) ==
  \E duty \in DutiesOfBadge(duties, badgeNumber) :
    LET saved == CheckedIn(duty, currentX, currentY, currentTime)
    IN  /\ duties' = (duties (-) SetToBag({duty})) (+) SetToBag({saved})
        /\ resp' = CheckInResponse(saved,
                     getDistanceFromLatLonInMeters(
                       duty.xCoord, duty.yCoord, currentX, currentY))
        /\ UNCHANGED <<sms, now, inflight, users>>

CheckIn(badgeNumber, currentX, currentY, currentTime) ==
  \/ CheckInNotFound(badgeNumber)
  \/ CheckInRecorded(badgeNumber, currentX, currentY, currentTime)

----------------------------------------------------------------------------
(* Shift strings.  A shift is held as a string; Chars gives the characters *)
(* of the shift strings that occur in the model.                           *)

\* a shift field that is absent from a request and from the saved document
NoShift == "(undefined)"

Chars(s) ==
  CASE s = "9am to 5pm" -> <<"9", "a", "m", " ", "t", "o", " ", "5", "p", "m">>
    [] s = "9pm to 6am" -> <<"9", "p", "m", " ", "t", "o", " ", "6", "a", "m">>
    [] s = "12am to 6am" ->
         <<"1", "2", "a", "m", " ", "t", "o", " ", "6", "a", "m">>
    [] s = "12pm to 5pm" ->
         <<"1", "2", "p", "m", " ", "t", "o", " ", "5", "p", "m">>
    [] s = "9AM to 5PM" -> <<"9", "A", "M", " ", "t", "o", " ", "5", "P", "M">>
    [] s = "6:30pm to 11pm" ->
         <<"6", ":", "3", "0", "p", "m", " ", "t", "o", " ", "1", "1", "p", "m">>
    [] s = "9amto5pm" -> <<"9", "a", "m", "t", "o", "5", "p", "m">>
    [] s = "x to y" -> <<"x", " ", "t", "o", " ", "y">>
    [] s = "garbage" -> <<"g", "a", "r", "b", "a", "g", "e">>
    [] s = "   " -> <<" ", " ", " ">>
    [] OTHER -> <<>>

\* String.prototype.toLowerCase on the characters of a shift
LowerChars(cs) ==
  [i \in 1 .. Len(cs) |->
     CASE cs[i] = "A" -> "a" [] cs[i] = "M" -> "m" [] cs[i] = "P" -> "p"
       [] OTHER -> cs[i]]

RECURSIVE TrimStart(_)
TrimStart(cs) ==
  IF cs # <<>> /\ Head(cs) = " " THEN TrimStart(Tail(cs)) ELSE cs

RECURSIVE TrimEnd(_)
TrimEnd(cs) ==
  IF cs # <<>> /\ cs[Len(cs)] = " "
    THEN TrimEnd(SubSeq(cs, 1, Len(cs) - 1)) ELSE cs

\* String.prototype.trim
Trim(cs) == TrimEnd(TrimStart(cs))

\* String.prototype.split(sep): the parts of cs between the occurrences of
\* sep; cur is the part being read
RECURSIVE SplitFrom(_, _, _)
SplitFrom(cs, sep, cur) ==
  IF cs = <<>> THEN <<cur>>
  ELSE IF Len(cs) >= Len(sep) /\ SubSeq(cs, 1, Len(sep)) = sep
    THEN <<cur>> \o SplitFrom(SubSeq(cs, Len(sep) + 1, Len(cs)), sep, <<>>)
    ELSE SplitFrom(Tail(cs), sep, Append(cur, Head(cs)))

Split(cs, sep) == SplitFrom(cs, sep, <<>>)

Digits == {"0", "1", "2", "3", "4", "5", "6", "7", "8", "9"}

\* parseInt of one digit
DigitValue(c) ==
  CASE c = "0" -> 0 [] c = "1" -> 1 [] c = "2" -> 2 [] c = "3" -> 3
    [] c = "4" -> 4 [] c = "5" -> 5 [] c = "6" -> 6 [] c = "7" -> 7
    [] c = "8" -> 8 [] c = "9" -> 9

\* the number of leading digits of cs
RECURSIVE LeadingDigits(_)
LeadingDigits(cs) ==
  IF cs # <<>> /\ Head(cs) \in Digits THEN 1 + LeadingDigits(Tail(cs)) ELSE 0

\* parseInt(cs, 10) of a sequence of digits
RECURSIVE ParseInt(_)
ParseInt(cs) ==
  IF cs = <<>> THEN 0
  ELSE 10 * ParseInt(SubSeq(cs, 1, Len(cs) - 1)) + DigitValue(cs[Len(cs)])

\* an hour of the 12-hour clock and its meridian as an hour of the day
MeridiemHour(hour, meridian) ==
  IF meridian = "pm" /\ hour < 12 THEN hour + 12
  ELSE IF meridian = "am" /\ hour = 12 THEN 0
  ELSE hour

\* moment(cs, ['h:mm a', 'ha']) for a string made of one or two digits, an
\* optional ":mm", optional blanks and an optional meridian: the minute of
\* the day it denotes; a string without a leading digit is not valid
MomentTime(cs) ==
  LET n == IF LeadingDigits(cs) > 2 THEN 2 ELSE LeadingDigits(cs)
      hour == ParseInt(SubSeq(cs, 1, n))
      afterHour == SubSeq(cs, n + 1, Len(cs))
      hasMinute == /\ Len(afterHour) >= 3
                   /\ afterHour[1] = ":"
                   /\ afterHour[2] \in Digits
                   /\ afterHour[3] \in Digits
      minute == IF hasMinute THEN ParseInt(SubSeq(afterHour, 2, 3)) ELSE 0
      afterMinute ==
        TrimStart(IF hasMinute THEN SubSeq(afterHour, 4, Len(afterHour))
                  ELSE afterHour)
      meridian == IF afterMinute # <<>> /\ Head(afterMinute) = "a" THEN "am"
                  ELSE IF afterMinute # <<>> /\ Head(afterMinute) = "p"
                    THEN "pm"
                  ELSE "none"
  IN  IF n = 0 \/ hour > 23 \/ minute > 59
        THEN [valid |-> FALSE, time |-> 0]
        ELSE [valid |-> TRUE,
              time |-> MeridiemHour(hour, meridian) * 60 + minute]

\* the null that parseShift returns
NoTimes == [valid |-> FALSE, start |-> 0, end |-> 0]

\* parseShift: start and end as minutes counted from the start of the day on
\* which the string is parsed, end a day later when it is before start
parseShift(shiftStr) ==
  IF shiftStr \in {NoShift, ""} THEN NoTimes
  ELSE LET parts == Split(Trim(LowerChars(Chars(shiftStr))),
                          <<" ", "t", "o", " ">>)
       IN  IF Len(parts) # 2 THEN NoTimes
           ELSE LET start == MomentTime(Trim(parts[1]))
                    end == MomentTime(Trim(parts[2]))
                IN  IF ~start.valid \/ ~end.valid THEN NoTimes
                    ELSE [valid |-> TRUE,
                          start |-> start.time,
                          end |-> IF end.time < start.time
                                    THEN end.time + MinutesPerDay
                                    ELSE end.time]

----------------------------------------------------------------------------
(* POST /api/live-location *)

MsgMissingParameters == "Missing parameters"
MsgActiveDutyNotFound == "Active duty not found"
MsgNoShift == "No shift assigned, location tracking stopped."
MsgInvalidShift == "Invalid shift format, location tracking stopped."
MsgShiftOver == "Shift is over or not started yet, location tracking stopped."
MsgLiveUpdated == "Live location updated"

\* now.clone().startOf('day') and now.clone().endOf('day'), the latter to
\* the minute
StartOfDay(t) == DayOf(t) * MinutesPerDay
EndOfDay(t) == StartOfDay(t) + MinutesPerDay - 1

\* the documents that match the query of Duty.findOne at instant t
LiveDuties_AnyStatus(store, badgeNumber, t) ==
  { d \in BagToSet(store) :
      /\ d.badgeNumber = badgeNumber
      /\ \/ /\ d.dutyType = "single"
            /\ d.dutyDate # NoDate
            /\ d.dutyDate >= StartOfDay(t)
            /\ d.dutyDate <= EndOfDay(t)
         \/ /\ d.dutyType # "single"
            /\ d.fromDate # NoDate /\ d.fromDate <= EndOfDay(t)
            /\ d.toDate # NoDate /\ d.toDate >= StartOfDay(t) }

LiveDuties(store, badgeNumber, t) ==
  { d \in BagToSet(store) :
      /\ d.badgeNumber = badgeNumber
      /\ d.status = "Active"
      /\ \/ /\ d.dutyType = "single"
            /\ d.dutyDate # NoDate
            /\ d.dutyDate >= StartOfDay(t)
            /\ d.dutyDate <= EndOfDay(t)
         \/ /\ d.dutyType # "single"
            /\ d.fromDate # NoDate /\ d.fromDate <= EndOfDay(t)
            /\ d.toDate # NoDate /\ d.toDate >= StartOfDay(t) }

\* !duty.shift || duty.shift.trim() === ''
BlankShift(shiftStr) ==
  shiftStr \in {NoShift, ""} \/ Trim(Chars(shiftStr)) = <<>>

\* now.clone().hour(h).minute(m).second(0) for the start of the parsed shift
ShiftStart(shift, t) ==
  StartOfDay(t) + ((shift.start % MinutesPerDay) \div 60) * 60
                + (shift.start % 60)

\* the same for the end of the parsed shift, a day later when it is before
\* shiftStart
ShiftEnd_SameDay(shift, t) ==
  StartOfDay(t) + ((shift.end % MinutesPerDay) \div 60) * 60 + (shift.end % 60)

ShiftEnd(shift, t) ==
  LET shiftEnd == StartOfDay(t) + ((shift.end % MinutesPerDay) \div 60) * 60
                                + (shift.end % 60)
  IN  IF shiftEnd < ShiftStart(shift, t) THEN shiftEnd + MinutesPerDay
      ELSE shiftEnd

\* now.isBetween(shiftStart, shiftEnd, null, '[]')
InShift_Wrapping(shift, t) ==
  \/ ShiftStart(shift, t) <= t /\ t <= ShiftEnd(shift, t)
  \/ /\ ShiftStart(shift, t) <= t + MinutesPerDay
     /\ t + MinutesPerDay <= ShiftEnd(shift, t)

InShift(shift, t) == ShiftStart(shift, t) <= t /\ t <= ShiftEnd(shift, t)

\* the document after the ping has been saved on it
LiveSaved_SetsStatus(d, livexCoord, liveyCoord) ==
  [d EXCEPT !.livexCoord = livexCoord, !.liveyCoord = liveyCoord,
            !.status = "on duty"]

LiveSaved(d, livexCoord, liveyCoord) ==
  [d EXCEPT !.livexCoord = livexCoord, !.liveyCoord = liveyCoord]

LiveMissingParameters(badgeNumber, livexCoord, liveyCoord) ==
  /\ NoCoord \in {livexCoord, liveyCoord}
  /\ resp' = Response("updateLiveLocation", 400, MsgMissingParameters, 0)
  /\ UNCHANGED <<duties, sms, now, inflight, users>>

LiveNotFound(badgeNumber, livexCoord, liveyCoord) ==
  /\ NoCoord \notin {livexCoord, liveyCoord}
  /\ LiveDuties(duties, badgeNumber, now) = {}
  /\ resp' = Response("updateLiveLocation", 404, MsgActiveDutyNotFound, 1)
  /\ UNCHANGED <<duties, sms, now, inflight, users>>

LiveNoShift_Saves(badgeNumber, livexCoord, liveyCoord) ==
  /\ NoCoord \notin {livexCoord, liveyCoord}
  /\ \E duty \in LiveDuties(duties, badgeNumber, now) :
       /\ BlankShift(duty.shift)
       /\ duties' = (duties (-) SetToBag({duty}))
                      (+) SetToBag({LiveSaved(duty, livexCoord, liveyCoord)})
  /\ resp' = Response("updateLiveLocation", 400, MsgNoShift, 1)
  /\ UNCHANGED <<sms, now, inflight, users>>

LiveNoShift(badgeNumber, livexCoord, liveyCoord) ==
  /\ NoCoord \notin {livexCoord, liveyCoord}
  /\ \E duty \in LiveDuties(duties, badgeNumber, now) : BlankShift(duty.shift)
  /\ resp' = Response("updateLiveLocation", 400, MsgNoShift, 1)
  /\ UNCHANGED <<duties, sms, now, inflight, users>>

LiveInvalidShift(badgeNumber, livexCoord, liveyCoord) ==
  /\ NoCoord \notin {livexCoord, liveyCoord}
  /\ \E duty \in LiveDuties(duties, badgeNumber, now) :
       ~BlankShift(duty.shift) /\ ~parseShift(duty.shift).valid
  /\ resp' = Response("updateLiveLocation", 400, MsgInvalidShift, 1)
  /\ UNCHANGED <<duties, sms, now, inflight, users>>

LiveShiftOver(badgeNumber, livexCoord, liveyCoord) ==
  /\ NoCoord \notin {livexCoord, liveyCoord}
  /\ \E duty \in LiveDuties(duties, badgeNumber, now) :
       /\ ~BlankShift(duty.shift)
       /\ parseShift(duty.shift).valid
       /\ ~InShift(parseShift(duty.shift), now)
  /\ resp' = Response("updateLiveLocation", 400, MsgShiftOver, 1)
  /\ UNCHANGED <<duties, sms, now, inflight, users>>

LiveRecorded(badgeNumber, livexCoord, liveyCoord) ==
  /\ NoCoord \notin {livexCoord, liveyCoord}
  /\ \E duty \in LiveDuties(duties, badgeNumber, now) :
       /\ ~BlankShift(duty.shift)
       /\ parseShift(duty.shift).valid
       /\ InShift(parseShift(duty.shift), now)
       /\ duties' = (duties (-) SetToBag({duty}))
                      (+) SetToBag({LiveSaved(duty, livexCoord, liveyCoord)})
  /\ resp' = Response("updateLiveLocation", 200, MsgLiveUpdated, 1)
  /\ UNCHANGED <<sms, now, inflight, users>>

UpdateLiveLocation(badgeNumber, livexCoord, liveyCoord) ==
  \/ LiveMissingParameters(badgeNumber, livexCoord, liveyCoord)
  \/ LiveNotFound(badgeNumber, livexCoord, liveyCoord)
  \/ LiveNoShift(badgeNumber, livexCoord, liveyCoord)
  \/ LiveInvalidShift(badgeNumber, livexCoord, liveyCoord)
  \/ LiveShiftOver(badgeNumber, livexCoord, liveyCoord)
  \/ LiveRecorded(badgeNumber, livexCoord, liveyCoord)

----------------------------------------------------------------------------
(* GET /api/dashboard/:batchNo *)

\* the null that parseHour returns
NoHour == -1

\* parseHour: a string /^(\d+)(am|pm)$/ as an hour of the day
parseHour_TwelveAmIsTwelve(cs) ==
  LET n == LeadingDigits(cs)
      hour == ParseInt(SubSeq(cs, 1, n))
      meridian == SubSeq(cs, n + 1, Len(cs))
  IN  IF n = 0 \/ meridian \notin {<<"a", "m">>, <<"p", "m">>} THEN NoHour
      ELSE IF meridian = <<"p", "m">> /\ hour # 12 THEN hour + 12
      ELSE hour

parseHour(cs) ==
  LET n == LeadingDigits(cs)
      hour == ParseInt(SubSeq(cs, 1, n))
      meridian == SubSeq(cs, n + 1, Len(cs))
  IN  IF n = 0 \/ meridian \notin {<<"a", "m">>, <<"p", "m">>} THEN NoHour
      ELSE IF meridian = <<"p", "m">> /\ hour # 12 THEN hour + 12
      ELSE IF meridian = <<"a", "m">> /\ hour = 12 THEN 0
      ELSE hour

\* d.shift.toLowerCase().replace(/\s+/g, '').split("to")
ShiftParts(shiftStr) ==
  Split(SelectSeq(LowerChars(Chars(shiftStr)), LAMBDA c : c # " "),
        <<"t", "o">>)

\* new Date().getHours()
HourOf(t) == (t % MinutesPerDay) \div 60

\* the test of duties.find: the document is current at instant t
IsCurrentDuty(d, t) ==
  /\ d.shift \notin {NoShift, ""}
  /\ d.dutyDate # NoDate
  /\ DayOf(d.dutyDate) >= DayOf(t)
  /\ LET parts == ShiftParts(d.shift)
     IN  /\ Len(parts) >= 2
         /\ parts[1] # <<>>
         /\ parts[2] # <<>>
         /\ LET startHour == parseHour(parts[1])
                endHour == parseHour(parts[2])
            IN  /\ startHour # NoHour
                /\ endHour # NoHour
                /\ IF DayOf(d.dutyDate) = DayOf(t)
                     THEN IF startHour <= endHour
                            THEN HourOf(t) >= startHour /\ HourOf(t) <= endHour
                            ELSE HourOf(t) >= startHour \/ HourOf(t) <= endHour
                     ELSE TRUE

\* the documents that duties.find can return: duties.sort has put the array
\* in descending order of dutyDate, documents of equal dutyDate in the order
\* in which Duty.find delivered them, so the first current document is one
\* of the latest dutyDate among the current ones
currentDuty(store, batchNo, t) ==
  { d \in DutiesOfBadge(store, batchNo) :
      /\ IsCurrentDuty(d, t)
      /\ \A e \in DutiesOfBadge(store, batchNo) :
           IsCurrentDuty(e, t) => e.dutyDate <= d.dutyDate }

\* a null of the response
Null == NoCoord

\* value || null for a coordinate
OrNull(coord) == IF coord \in {0, NoCoord} THEN Null ELSE coord

\* the response, with the document found current or with none; the model
\* holds no constable and no attendance totals
DashboardResponse(store, batchNo, found) ==
  [ op            |-> "dashboard",
    code          |-> 200,
    message       |-> "none",
    finds         |-> 2,
    activeDuties  |->
      BagCardinality(
        [d \in { e \in DutiesOfBadge(store, batchNo) : e.status = "Active" }
           |-> CopiesIn(d, store)]),
    myCoordinates |->
      IF \E d \in DutiesOfBadge(store, batchNo) :
           OrNull(d.xCoord) # Null /\ OrNull(d.yCoord) # Null
        THEN 1 ELSE 0,
    totalPresent  |-> "0",
    totalAbsent   |-> "0",
    name          |-> "-",
    batchNo       |-> batchNo,
    xCoord        |-> IF found = {} THEN Null
                      ELSE OrNull((CHOOSE d \in found : TRUE).xCoord),
    yCoord        |-> IF found = {} THEN Null
                      ELSE OrNull((CHOOSE d \in found : TRUE).yCoord),
    location      |-> IF found = {} THEN "No Active Duty"
                      ELSE (CHOOSE d \in found : TRUE).location ]

DashboardNoDuty(batchNo) ==
  /\ currentDuty(duties, batchNo, now) = {}
  /\ resp' = DashboardResponse(duties, batchNo, {})
  /\ UNCHANGED <<duties, sms, now, inflight, users>>

DashboardCurrent(batchNo) ==
  /\ \E d \in currentDuty(duties, batchNo, now) :
       resp' = DashboardResponse(duties, batchNo, {d})
  /\ UNCHANGED <<duties, sms, now, inflight, users>>

Dashboard(batchNo) ==
  \/ DashboardNoDuty(batchNo)
  \/ DashboardCurrent(batchNo)

----------------------------------------------------------------------------
(* PUT /api/duties/:id and DELETE /api/duties/:id.  The _id of a stored    *)
(* document is the document; NoId is an _id that no document carries.      *)

NoId == [id |-> "none"]

MsgEditNotFound == "Duty not found"
MsgDeleted == "Duty deleted successfully"

DateFields == {"dutyDate", "fromDate", "toDate"}

\* the document after findByIdAndUpdate(id, body): the fields of the body
\* replace those of the document, date strings cast to dates; nothing is
\* validated and no conflict is looked for
Updated(d, body) ==
  [f \in DOMAIN d |->
     IF f \in DOMAIN body
       THEN IF f \in DateFields THEN NewDate(body[f]) ELSE body[f]
       ELSE d[f]]

EditNotFound(id, body) ==
  /\ id \notin BagToSet(duties)
  /\ resp' = Response("editDuty", 404, MsgEditNotFound, 1)
  /\ UNCHANGED <<duties, sms, now, inflight, users>>

EditUpdated(id, body) ==
  /\ id \in BagToSet(duties)
  /\ duties' = (duties (-) SetToBag({id})) (+) SetToBag({Updated(id, body)})
  /\ resp' = Response("editDuty", 200, "none", 1)
  /\ UNCHANGED <<sms, now, inflight, users>>

EditDuty(id, body) ==
  \/ EditNotFound(id, body)
  \/ EditUpdated(id, body)

DeleteNotFound(id) ==
  /\ id \notin BagToSet(duties)
  /\ resp' = Response("deleteDuty", 404, MsgEditNotFound, 1)
  /\ UNCHANGED <<duties, sms, now, inflight, users>>

DeleteDone(id) ==
  /\ id \in BagToSet(duties)
  /\ duties' = duties (-) SetToBag({id})
  /\ resp' = Response("deleteDuty", 200, MsgDeleted, 1)
  /\ UNCHANGED <<sms, now, inflight, users>>

DeleteDuty(id) ==
  \/ DeleteNotFound(id)
  \/ DeleteDone(id)

----------------------------------------------------------------------------
(* The police users: policeUserSchema, POST /api/police-users,             *)
(* PATCH /api/police-users/:id/status, DELETE /api/police-users/:id and    *)
(* POST /moblogin. users.docs is the collection; a document is its _id,    *)
(* batchNo, hashed password and status. users.created counts the documents *)
(* ever saved: an _id is never given twice.                                *)

\* a string of the request body that is absent or empty
Missing == ""

\* the status a new document gets from the schema
DefaultStatus == "active"

\* bcrypt.hash(password, 10): the stored value is not the password
Hash(password) == [saltRounds |-> 10, digestOf |-> password]

\* bcrypt.compare(password, hashed)
Compare(password, hashed) == hashed = Hash(password)

\* an _id that no document has
NoUserId == 0

\* the values the status patch accepts, with the lower-case spelling too
PatchStatuses_WithLowerCase == {"Active", "Disabled", "active"}

\* the values the status patch accepts
PatchStatuses == {"Active", "Disabled"}

\* the documents of a batch number: at most one, batchNo is unique
UsersOfBatch(coll, batchNo) == { u \in coll.docs : u.batchNo = batchNo }

\* the document of an _id
UsersOfId(coll, id) == { u \in coll.docs : u.id = id }

\* the collection can take another document
UsersHaveRoom(coll) == coll.created < MaxUsers

AddMissing(batchNo, password) ==
  /\ batchNo = Missing \/ password = Missing
  /\ resp' = Response("addPoliceUser", 400, "BatchNo and password are required", 0)
  /\ UNCHANGED <<duties, sms, now, inflight, users>>

AddDuplicate(batchNo, password) ==
  /\ batchNo # Missing /\ password # Missing
  /\ UsersOfBatch(users, batchNo) # {}
  /\ resp' = Response("addPoliceUser", 409, "BatchNo already exists", 0)
  /\ UNCHANGED <<duties, sms, now, inflight, users>>

AddSaved(batchNo, password) ==
  /\ batchNo # Missing /\ password # Missing
  /\ UsersOfBatch(users, batchNo) = {}
  /\ UsersHaveRoom(users)
  /\ users' = [docs |-> users.docs \cup
                 { [id |-> users.created + 1, batchNo |-> batchNo,
                    password |-> Hash(password), status |-> DefaultStatus] },
               created |-> users.created + 1]
  /\ resp' = Response("addPoliceUser", 201, "Police user added successfully", 0)
  /\ UNCHANGED <<duties, sms, now, inflight>>

AddPoliceUser(batchNo, password) ==
  \/ AddMissing(batchNo, password)
  \/ AddDuplicate(batchNo, password)
  \/ AddSaved(batchNo, password)

PatchInvalid(id, status) ==
  /\ status \notin PatchStatuses
  /\ resp' = Response("patchStatus", 400, "Invalid status value", 0)
  /\ UNCHANGED <<duties, sms, now, inflight, users>>

PatchNotFound(id, status) ==
  /\ status \in PatchStatuses
  /\ UsersOfId(users, id) = {}
  /\ resp' = Response("patchStatus", 404, "User not found", 1)
  /\ UNCHANGED <<duties, sms, now, inflight, users>>

\* the response is the updated document; its status stands for it
PatchUpdated(id, status) ==
  /\ status \in PatchStatuses
  /\ UsersOfId(users, id) # {}
  /\ users' = [users EXCEPT !.docs =
                 { IF u.id = id THEN [u EXCEPT !.status = status] ELSE u :
                   u \in users.docs }]
  /\ resp' = Response("patchStatus", 200, status, 1)
  /\ UNCHANGED <<duties, sms, now, inflight>>

PatchStatus(id, status) ==
  \/ PatchInvalid(id, status)
  \/ PatchNotFound(id, status)
  \/ PatchUpdated(id, status)

DeleteUserNotFound(id) ==
  /\ UsersOfId(users, id) = {}
  /\ resp' = Response("deletePoliceUser", 404, "User not found", 1)
  /\ UNCHANGED <<duties, sms, now, inflight, users>>

DeleteUserDone(id) ==
  /\ UsersOfId(users, id) # {}
  /\ users' = [users EXCEPT !.docs = users.docs \ UsersOfId(users, id)]
  /\ resp' = Response("deletePoliceUser", 200, "User deleted successfully", 1)
  /\ UNCHANGED <<duties, sms, now, inflight>>

DeletePoliceUser(id) ==
  \/ DeleteUserNotFound(id)
  \/ DeleteUserDone(id)

LoginNotFound(batchNo, password) ==
  /\ UsersOfBatch(users, batchNo) = {}
  /\ resp' = Response("moblogin", 404, "User not found", 1)
  /\ UNCHANGED <<duties, sms, now, inflight, users>>

LoginNotActive(batchNo, password) ==
  /\ \E user \in UsersOfBatch(users, batchNo) : user.status # "active"
  /\ resp' = Response("moblogin", 403, "User is not active", 1)
  /\ UNCHANGED <<duties, sms, now, inflight, users>>

LoginInvalidPassword(batchNo, password) ==
  /\ \E user \in UsersOfBatch(users, batchNo) :
       /\ user.status = "active"
       /\ ~Compare(password, user.password)
  /\ resp' = Response("moblogin", 401, "Invalid password", 1)
  /\ UNCHANGED <<duties, sms, now, inflight, users>>

LoginSuccessful(batchNo, password) ==
  /\ \E user \in UsersOfBatch(users, batchNo) :
       /\ user.status = "active"
       /\ Compare(password, user.password)
  /\ resp' = Response("moblogin", 200, "Login successful", 1)
  /\ UNCHANGED <<duties, sms, now, inflight, users>>

MobLogin(batchNo, password) ==
  \/ LoginNotFound(batchNo, password)
  \/ LoginNotActive(batchNo, password)
  \/ LoginInvalidPassword(batchNo, password)
  \/ LoginSuccessful(batchNo, password)

----------------------------------------------------------------------------
(* The clock of the server *)

\* the instants at which requests arrive: 10:00 of every day
ClockInstants ==
  { NewDate(DateTime(d, 10 * 60)) : d \in Days }

\* the date string of an instant
DateString(t) == DateTime(DayOf(t), t % MinutesPerDay)

\* the clock moving on; resp is the response to a request of the present
\* instant
Tick ==
  /\ \E t \in ClockInstants : t > now /\ now' = t
  /\ resp' = NoResponse
  /\ UNCHANGED <<duties, sms, inflight, users>>

\* the clock moving on to a later instant of the set instants
TickWithin(instants) ==
  /\ \E t \in instants : t > now /\ now' = t
  /\ resp' = NoResponse
  /\ UNCHANGED <<duties, sms, inflight, users>>

\* the request bodies of all operations together
Badges == {"B100", "B200"}

SpecBodies ==
  { SingleBody(BaseScope, "Active", Phone, DateOnly(d)) : d \in {0, MaxDay} }
  \cup
  { MultipleBody(BaseScope, "Active", Phone, <<DateOnly(0), DateOnly(MaxDay)>>),
    SingleBody([BaseScope EXCEPT !.badgeNumber = "B200"], "active", Phone,
               DateOnly(1)),
    SingleBody(BaseScope, "Active", Undefined, DateOnly(0)),
    SingleBody(BaseScope, "Inactive", Phone, DateOnly(0)) }

\* the reported positions: 444 m and 1111 m from the duty location
Pings == { <<0, 444>>, <<0, 1111>> }

\* a scope of officer B200 with the given shift
ScopeB200(shift) ==
  [BaseScope EXCEPT !.badgeNumber = "B200", !.shift = shift]

\* check-in and live location on a few duties of day 0: one with a shift of
\* the day, one with an unreadable shift, one with an empty shift
CheckInBodies ==
  { SingleBody(BaseScope, "Active", Phone, DateOnly(0)),
    SingleBody(ScopeB200("garbage"), "Active", Undefined, DateOnly(0)),
    SingleBody(ScopeB200(""), "Active", Phone, DateOnly(0)),
    SingleBody(BaseScope, "Inactive", Phone, DateOnly(0)) }

\* 10:00 and 20:00 of day 0
CheckInInstants == { NewDate(DateTime(0, h * 60)) : h \in {10, 20} }

\* positions 500 m and 501 m from the duty location
CheckInPings == { <<0, 500>>, <<0, 501>> }

\* a ping without coordinates
NoPing == <<NoCoord, NoCoord>>

\* live location on duties of day 1 and of days 1 to 2, with shifts of the
\* day, overnight, absent, empty, blank and unreadable
LiveBodies ==
  { SingleBody(BaseScope, "Active", Phone, DateOnly(1)),
    MultipleBody([BaseScope EXCEPT !.shift = "9pm to 6am"], "Active", Phone,
                 <<DateOnly(1), DateOnly(2)>>),
    SingleBody([BaseScope EXCEPT !.batchNumber = "2"], "active", Phone,
               DateOnly(1)),
    SingleBody(ScopeB200("garbage"), "Active", Undefined, DateOnly(1)),
    SingleBody(ScopeB200("x to y"), "Active", Phone, DateOnly(1)),
    SingleBody(ScopeB200(""), "Active", Phone, DateOnly(1)),
    SingleBody(ScopeB200("   "), "Active", Phone, DateOnly(1)),
    SingleBody(ScopeB200(NoShift), "Active", Phone, DateOnly(1)),
    SingleBody(BaseScope, "Inactive", Phone, DateOnly(1)) }

\* 10:00 of day 0, the minutes around the shifts on day 1, 09:00 of the
\* later days
LiveInstants ==
  { NewDate(DateTime(0, 10 * 60)) }
  \cup { NewDate(DateTime(1, m)) :
           m \in {8 * 60 + 59, 9 * 60, 17 * 60, 17 * 60 + 1, 21 * 60} }
  \cup { NewDate(DateTime(d, 9 * 60)) : d \in 2 .. MaxDay }

LivePings == { <<0, 444>>, <<3, 7>> }

\* a single duty of the given officer, day, shift and place
PlacedBody(badgeNumber, day, shift, location, coord, contact) ==
  [SingleBody([BaseScope EXCEPT !.badgeNumber = badgeNumber, !.shift = shift],
              "Active", contact, DateOnly(day))
     EXCEPT !.location = location, !.xCoord = coord[1], !.yCoord = coord[2]]

\* the dashboard over duties of day 1 and day 2 at distinct places, with
\* shifts of the day, overnight, from midnight and from noon
DashboardBodies ==
  { PlacedBody("B100", 1, "9am to 5pm", "Station A", <<10, 20>>, Phone),
    PlacedBody("B100", 2, "9am to 5pm", "Gate 2", <<30, 40>>, Phone),
    PlacedBody("B200", 1, "9pm to 6am", "Bridge", <<0, 0>>, Undefined),
    PlacedBody("B200", 1, "12am to 6am", "Depot", <<50, 60>>, Phone),
    PlacedBody("B200", 1, "12pm to 5pm", "Market", <<70, 80>>, Phone),
    SingleBody(BaseScope, "Inactive", Phone, DateOnly(1)) }

\* 10:00 of day 0, the turns of the hours of the shifts on day 1, 10:00 of
\* the later days
DashboardInstants ==
  { NewDate(DateTime(0, 10 * 60)) }
  \cup { NewDate(DateTime(1, m)) :
           m \in {30, 6 * 60 + 59, 7 * 60, 9 * 60, 12 * 60, 17 * 60 + 59,
                  18 * 60, 21 * 60} }
  \cup { NewDate(DateTime(d, 10 * 60)) : d \in 2 .. MaxDay }

\* live location and dashboard side by side: a shift written with minutes, a
\* multiple duty that starts on day 0, an overnight single duty, a shift
\* written without blanks and an empty shift
ViewBodies ==
  { PlacedBody("B100", 1, "6:30pm to 11pm", "Station A", <<10, 20>>, Phone),
    MultipleBody(BaseScope, "Active", Phone, <<DateOnly(0), DateOnly(2)>>),
    PlacedBody("B200", 1, "9pm to 6am", "Bridge", <<30, 40>>, Undefined),
    PlacedBody("B200", 1, "9amto5pm", "Depot", <<50, 60>>, Phone),
    PlacedBody("B200", 1, "", "Market", <<70, 80>>, Phone),
    SingleBody(BaseScope, "Inactive", Phone, DateOnly(1)) }

\* 10:00 of day 0; 03:00, 10:00, 19:00, 21:00 and 23:59 of day 1; 03:00 of
\* day 2; 10:00 of the later days
ViewInstants ==
  { NewDate(DateTime(0, 10 * 60)), NewDate(DateTime(2, 3 * 60)) }
  \cup { NewDate(DateTime(1, m)) :
           m \in {3 * 60, 10 * 60, 19 * 60, 21 * 60, 23 * 60 + 59} }
  \cup { NewDate(DateTime(d, 10 * 60)) : d \in 2 .. MaxDay }

\* edit, delete, check-in and live location on two duties of one scope, on
\* day 0 and on day 1, and on duties with an unreadable and an empty shift
EditBodies ==
  CheckInBodies \cup {SingleBody(BaseScope, "Active", Phone, DateOnly(1))}

\* the bodies of the edit requests
EditUpdates == { [status |-> "Active"], [dutyDate |-> DateOnly(0)] }

\* the police users: the batch numbers, passwords, statuses and _ids sent
UserBatchNos == Badges \cup {Missing}
UserPasswords == {"pw1", "pw2", Missing}
UserStatuses == {"Active", "Disabled", "active", "Inactive"}
UserIds == (1 .. MaxUsers) \cup {NoUserId}

----------------------------------------------------------------------------
(* Specifications *)

Init ==
  /\ duties = EmptyBag
  /\ sms = EmptyBag
  /\ resp = NoResponse
  /\ now = NewDate(DateTime(0, 10 * 60))
  /\ inflight = [p \in Procs |-> Idle]
  /\ users = [docs |-> {}, created |-> 0]

\* assignDuty requests executed one at a time
NextAssign ==
  \/ \E r \in AssignBodies : AssignDuty(r)
  \/ \E m \in BagToSet(sms), err \in BOOLEAN : SmsCallback(m, err)

SpecAssign == Init /\ [][NextAssign]_vars

\* assignDuty requests that overlap in time
NextRace ==
  \/ \E p \in Procs, r \in RaceBodies : RaceFind(p, r)
  \/ \E p \in Procs : RaceConflict(p)
  \/ \E p \in Procs : RaceSave(p)
  \/ \E p \in Procs : RaceNotify(p)
  \/ \E m \in BagToSet(sms), err \in BOOLEAN : SmsCallback(m, err)

SpecRace == Init /\ [][NextRace]_vars

\* all operations, each run to completion
Next ==
  \/ \E r \in SpecBodies : AssignDuty(r)
  \/ \E m \in BagToSet(sms), err \in BOOLEAN : SmsCallback(m, err)
  \/ \E b \in Badges, pg \in Pings :
       CheckIn(b, pg[1], pg[2], DateString(now))
  \/ Tick

Spec == Init /\ [][Next]_vars

\* check-in and live location within one day
NextCheckIn ==
  \/ \E r \in CheckInBodies : AssignDuty(r)
  \/ \E b \in Badges, pg \in CheckInPings :
       CheckIn(b, pg[1], pg[2], DateString(now))
  \/ \E b \in Badges, pg \in {<<0, 500>>, NoPing} :
       UpdateLiveLocation(b, pg[1], pg[2])
  \/ TickWithin(CheckInInstants)

SpecCheckIn == Init /\ [][NextCheckIn]_vars

\* live location over the days
NextLive ==
  \/ \E r \in LiveBodies : AssignDuty(r)
  \/ \E b \in Badges, pg \in LivePings \cup {NoPing} :
       UpdateLiveLocation(b, pg[1], pg[2])
  \/ TickWithin(LiveInstants)

SpecLive == Init /\ [][NextLive]_vars

\* the dashboard over the days
NextDashboard ==
  \/ \E r \in DashboardBodies : AssignDuty(r)
  \/ \E b \in Badges : Dashboard(b)
  \/ TickWithin(DashboardInstants)

SpecDashboard == Init /\ [][NextDashboard]_vars

\* edit and delete next to check-in and live location; the duties of B100
\* are edited, deleted and checked in
NextEdit ==
  \/ \E r \in EditBodies : AssignDuty(r)
  \/ \E m \in BagToSet(sms), err \in BOOLEAN : SmsCallback(m, err)
  \/ \E id \in DutiesOfBadge(duties, "B100") \cup {NoId},
        body \in EditUpdates : EditDuty(id, body)
  \/ \E id \in DutiesOfBadge(duties, "B100") \cup {NoId} : DeleteDuty(id)
  \/ \E pg \in CheckInPings : CheckIn("B100", pg[1], pg[2], DateString(now))
  \/ \E b \in Badges, pg \in {<<0, 500>>, NoPing} :
       UpdateLiveLocation(b, pg[1], pg[2])
  \/ TickWithin(CheckInInstants)

SpecEdit == Init /\ [][NextEdit]_vars

\* check-in and live location within one day, and the edit that sets a
\* status back to Active
NextRestore ==
  \/ NextCheckIn
  \/ \E id \in BagToSet(duties) \cup {NoId} :
       EditDuty(id, [status |-> "Active"])

SpecRestore == Init /\ [][NextRestore]_vars

\* the police users: added, patched, deleted and logged in
NextUsers ==
  \/ \E b \in UserBatchNos, p \in UserPasswords : AddPoliceUser(b, p)
  \/ \E id \in UserIds, st \in UserStatuses : PatchStatus(id, st)
  \/ \E id \in UserIds : DeletePoliceUser(id)
  \/ \E b \in UserBatchNos, p \in UserPasswords : MobLogin(b, p)

SpecUsers == Init /\ [][NextUsers]_vars

\* live location and dashboard over the days
NextViews ==
  \/ \E r \in ViewBodies : AssignDuty(r)
  \/ \E b \in Badges, pg \in {<<3, 7>>, NoPing} :
       UpdateLiveLocation(b, pg[1], pg[2])
  \/ \E b \in Badges : Dashboard(b)
  \/ TickWithin(ViewInstants)

SpecViews == Init /\ [][NextViews]_vars

----------------------------------------------------------------------------
(* Date coverage of the documents *)

\* the calendar days a document covers: its dutyDate for a single duty, every
\* day of [fromDate, toDate] for a multiple duty
Coverage(d) ==
  IF d.dutyType = "multiple"
    THEN DayOf(d.fromDate) .. DayOf(d.toDate)
    ELSE {DayOf(d.dutyDate)}

\* the triple that scopes the overlap rule
ScopeOf(x) == <<x.badgeNumber, x.batchNumber, x.shift>>

\* two stored documents (or two copies of one) of the same scope that cover
\* a common day
Overlapping(store) ==
  { pr \in BagToSet(store) \X BagToSet(store) :
      /\ ScopeOf(pr[1]) = ScopeOf(pr[2])
      /\ pr[1] # pr[2] \/ CopiesIn(pr[1], store) >= 2
      /\ Coverage(pr[1]) \cap Coverage(pr[2]) # {} }

IsConflict(rs) == rs.message \in {MsgConflictSingle, MsgConflictMultiple}

\* the request body r is active whatever the case of its status
ActiveBody(r) == r.status \in {"active", "Active", "ACTIVE"}

----------------------------------------------------------------------------
(* Claims *)

\* C1: after any sequence of assignDuty requests executed one at a time from
\* the empty store, no two stored documents of the same (badgeNumber,
\* batchNumber, shift) cover a common day.
C1_NoOverlap == Overlapping(duties) = {}

\* C2: a request that has passed its conflict read with no conflict inserts
\* its document whatever the collection holds by then (no store-level
\* uniqueness), so two concurrent requests for the same duty leave duplicates.
C2_RaceInsertsUnchecked ==
  [][\A p \in Procs :
       RaceSave(p) =>
         /\ BagCardinality(duties') = BagCardinality(duties) + 1
         /\ CopiesIn(NewDuty(inflight[p].body), duties')
              = CopiesIn(NewDuty(inflight[p].body), duties) + 1]_vars

\* C2 witness: both requests have answered and the store holds two copies of
\* one single duty
C2_Witness ==
  /\ \A p \in Procs : inflight[p].pc = "idle"
  /\ \E d \in BagToSet(duties) :
       d.dutyType = "single" /\ CopiesIn(d, duties) = 2

\* C3: an active single request is answered with a conflict iff a stored
\* document of the same scope has its dutyDate on the calendar day of the
\* proposed dutyDate.
C3_SingleConflictSameDay ==
  [][\A r \in AssignBodies :
       (ActiveBody(r) /\ r.dutyType = "single" /\ AssignDuty(r)) =>
         (IsConflict(resp') <=>
            \E d \in BagToSet(duties) :
              /\ ScopeOf(d) = ScopeOf(r)
              /\ DayOf(d.dutyDate) = DayOf(NewDate(r.dutyDate)))]_vars

C5_OtherScopeNeverConflicts ==
  [][\A r \in AssignBodies :
       (IsConflict(resp') /\ AssignDuty(r)) =>
         \E d \in BagToSet(duties) :
           /\ d.badgeNumber = r.badgeNumber
           /\ d.batchNumber = r.batchNumber
           /\ d.shift = r.shift]_vars

\* C5 witness: a request succeeded although a document of another scope was
\* stored on its date
C5_Witness ==
  /\ resp.code = 200
  /\ \E d1, d2 \in BagToSet(duties) :
       /\ ScopeOf(d1) # ScopeOf(d2)
       /\ d1.dutyType = "single" /\ d2.dutyType = "single"
       /\ d1.dutyDate = d2.dutyDate

\* C6: a conflict answer leaves the collection as it was and dispatches no
\* notification.
C6_ConflictWritesNothing ==
  [][\A r \in AssignBodies :
       (IsConflict(resp') /\ AssignDuty(r)) =>
         (duties' = duties /\ sms' = sms)]_vars

\* C6 witness: a conflict was answered
C6_Witness ==
  /\ resp.op = "assignDuty"
  /\ IsConflict(resp)
  /\ duties # EmptyBag

\* C7: a status that is not "active" in any case is answered with the
\* not-active error before any store query and leaves the store unchanged;
\* every case variant of "active" passes the check.
C7_NotActiveRejectedFirst ==
  [][\A r \in AssignBodies :
       /\ (~ ActiveBody(r) /\ AssignDuty(r)) =>
            /\ resp' = Response("assignDuty", 400, MsgNotActive, 0)
            /\ duties' = duties
       /\ (ActiveBody(r) /\ resp'.message = MsgNotActive) =>
            ~ AssignDuty(r)]_vars

\* C7 witness: a request was refused as not active, no query issued
C7_Witness ==
  /\ resp.message = MsgNotActive
  /\ resp.finds = 0

C9_NotifierNeverFailsRequest ==
  [][/\ \A r \in AssignBodies :
          (duties' # duties /\ AssignDuty(r)) => resp'.code = 200
     /\ \A m \in BagToSet(sms), err \in BOOLEAN :
          SmsCallback(m, err) => (duties' = duties /\ resp' = resp)]_vars

\* the officer holds a document with status Active whose coverage includes
\* the day of the clock
ActiveToday(store, badgeNumber) ==
  \E d \in BagToSet(store) :
    /\ d.badgeNumber = badgeNumber
    /\ d.status = "Active"
    /\ DayOf(now) \in Coverage(d)

\* C10: when the officer has documents but none with status Active that
\* covers today, checkIn answers not-found and changes no document.
C10_CheckInNeedsActiveToday ==
  [][\A b \in Badges, pg \in Pings :
       (/\ CheckIn(b, pg[1], pg[2], DateString(now))
        /\ DutiesOfBadge(duties, b) # {}
        /\ ~ ActiveToday(duties, b)) =>
         (resp'.code = 404 /\ duties' = duties)]_vars

----------------------------------------------------------------------------
(* Presence: check-in *)

\* what the presence operations record on the documents
PresenceOf(store) ==
  { <<d.badgeNumber, d.batchNumber, d.shift, d.dutyType, d.fromDate, d.toDate,
      d.livexCoord, d.liveyCoord, d.status, d.remarks>> :
      d \in BagToSet(store) }

\* the schedule of the documents: what the presence operations are to leave
\* alone
ScheduleOf(store) ==
  { <<d.badgeNumber, d.batchNumber, d.shift, d.dutyDate, d.fromDate, d.toDate,
      d.xCoord, d.yCoord>> : d \in BagToSet(store) }

\* every document of the officer has a readable shift whose window of the
\* day of instant t does not contain t
OutsideEveryShift(store, badgeNumber, t) ==
  /\ DutiesOfBadge(store, badgeNumber) # {}
  /\ \A d \in DutiesOfBadge(store, badgeNumber) :
       /\ ~BlankShift(d.shift)
       /\ parseShift(d.shift).valid
       /\ ~InShift(parseShift(d.shift), t)

\* C11: a check-in made at an instant outside the shift window of the
\* officer's assignment is rejected, and the live coordinates, the status and
\* the remarks of the documents stay as they were.
C11_CheckInOutsideShiftRejected ==
  [][\A b \in Badges, pg \in CheckInPings :
       ( /\ OutsideEveryShift(duties, b, now)
         /\ CheckIn(b, pg[1], pg[2], DateString(now)) )
       => /\ resp'.code # 200
          /\ PresenceOf(duties') = PresenceOf(duties)]_vars

\* the check-in step of officer b with ping pg replaces document duty by
\* document saved
CheckInStep(b, pg, duty, saved) ==
  /\ duty \in DutiesOfBadge(duties, b)
  /\ saved \in BagToSet(duties')
  /\ duties' = (duties (-) SetToBag({duty})) (+) SetToBag({saved})
  /\ resp'.distance =
       getDistanceFromLatLonInMeters(duty.xCoord, duty.yCoord, pg[1], pg[2])

\* C12: a check-in that finds a document at distance <= 500 m sets status
\* "on duty" and empty remarks, at distance > 500 m status "off duty" and
\* remarks "user is outside range"; 500 m itself is on duty; the response
\* carries the status and the remarks that were stored.
C12_CheckInClassifies ==
  [][\A b \in Badges, pg \in CheckInPings :
       ( /\ DutiesOfBadge(duties, b) # {}
         /\ CheckIn(b, pg[1], pg[2], DateString(now)) )
       => \E duty \in DutiesOfBadge(duties, b), saved \in BagToSet(duties') :
            /\ CheckInStep(b, pg, duty, saved)
            /\ resp'.distance # NaN
            /\ saved.status = resp'.status
            /\ saved.remarks = resp'.remarks
            /\ resp'.distance <= 500
                 => saved.status = "on duty" /\ saved.remarks = ""
            /\ resp'.distance > 500
                 => /\ saved.status = "off duty"
                    /\ saved.remarks = "user is outside range"]_vars

\* a check-in at exactly 500 m has been answered on duty and stored so
C12_Witness ==
  /\ resp.op = "checkIn" /\ resp.code = 200
  /\ resp.distance = 500 /\ resp.status = "on duty" /\ resp.remarks = ""
  /\ \E d \in BagToSet(duties) :
       /\ d.status = "on duty" /\ d.remarks = ""
       /\ d.livexCoord = 0 /\ d.liveyCoord = 500

\* C13: every check-in that finds a document stores the reported
\* coordinates in livexCoord and liveyCoord, on duty or off duty.
C13_CheckInStoresCoordinates ==
  [][\A b \in Badges, pg \in CheckInPings :
       ( /\ DutiesOfBadge(duties, b) # {}
         /\ CheckIn(b, pg[1], pg[2], DateString(now)) )
       => \E duty \in DutiesOfBadge(duties, b), saved \in BagToSet(duties') :
            /\ CheckInStep(b, pg, duty, saved)
            /\ saved.livexCoord = pg[1]
            /\ saved.liveyCoord = pg[2]]_vars

\* a check-in classified off duty has stored its coordinates
C13_Witness ==
  /\ resp.op = "checkIn" /\ resp.code = 200 /\ resp.status = "off duty"
  /\ \E d \in BagToSet(duties) :
       /\ d.status = "off duty"
       /\ d.livexCoord = 0 /\ d.liveyCoord = 501

\* C14: check-in and live location leave dutyDate, fromDate, toDate, shift,
\* batchNumber, badgeNumber, xCoord and yCoord of every stored document as
\* they were, and the number of documents too.
C14_PresenceKeepsSchedule ==
  [][( \/ \E b \in Badges, pg \in CheckInPings :
            CheckIn(b, pg[1], pg[2], DateString(now))
       \/ \E b \in Badges, pg \in {<<0, 500>>, NoPing} :
            UpdateLiveLocation(b, pg[1], pg[2]) )
     => /\ ScheduleOf(duties') = ScheduleOf(duties)
        /\ BagCardinality(duties') = BagCardinality(duties)]_vars

----------------------------------------------------------------------------
(* Presence: live location *)

\* the document covers the day of instant t: a single duty when its dutyDate
\* falls on that day, a multiple duty when its fromDate is not after the end
\* of that day and its toDate not before the start of it
CoversToday(d, t) ==
  IF d.dutyType = "single"
    THEN DayOf(d.dutyDate) = DayOf(t)
    ELSE /\ d.fromDate < (DayOf(t) + 1) * MinutesPerDay
         /\ d.toDate >= DayOf(t) * MinutesPerDay

\* the officer's documents with status Active that cover the day of t
ActiveCovering(store, badgeNumber, t) ==
  { d \in BagToSet(store) :
      d.badgeNumber = badgeNumber /\ d.status = "Active" /\ CoversToday(d, t) }

\* C15: updateLiveLocation answers not found, and changes no document,
\* exactly when the officer has no document with status Active that covers
\* today.
C15_LiveNotFoundIffNoActiveToday ==
  [][\A b \in Badges, pg \in LivePings :
       UpdateLiveLocation(b, pg[1], pg[2])
       => /\ (resp'.code = 404) <=> (ActiveCovering(duties, b, now) = {})
          /\ resp'.code = 404
               => resp'.message = MsgActiveDutyNotFound /\ duties' = duties
     ]_vars

\* not found was answered on a day for which a document is stored, but with
\* status "active"
C15_Witness ==
  /\ resp.message = MsgActiveDutyNotFound
  /\ \E d \in BagToSet(duties) : d.status = "active" /\ CoversToday(d, now)
  /\ \A d \in BagToSet(duties) : ~(d.status = "Active" /\ CoversToday(d, now))

\* the shift strings from which no start and end can be read
UnreadableShifts == {NoShift, "", "   ", "garbage", "x to y"}

\* C16: when every document that updateLiveLocation can locate has a
\* missing, empty, blank or unreadable shift, the answer is one of the two
\* tracking-stopped errors and no document changes.
C16_LiveBadShiftStops ==
  [][\A b \in Badges, pg \in LivePings :
       ( /\ ActiveCovering(duties, b, now) # {}
         /\ \A d \in ActiveCovering(duties, b, now) :
              d.shift \in UnreadableShifts
         /\ UpdateLiveLocation(b, pg[1], pg[2]) )
       => /\ resp'.code = 400
          /\ resp'.message \in {MsgNoShift, MsgInvalidShift}
          /\ duties' = duties]_vars

\* tracking was stopped for a blank shift, and no document with such a shift
\* carries live coordinates
C16_Witness ==
  /\ resp.message = MsgNoShift
  /\ \E d \in BagToSet(duties) :
       d.shift = "   " /\ d.status = "Active" /\ CoversToday(d, now)
  /\ \A d \in BagToSet(duties) :
       d.shift \in UnreadableShifts => d.livexCoord = NoCoord

\* the start and the end of the readable shifts, in minutes of the day
StartMinuteOf(shift) ==
  CASE shift = "9am to 5pm" -> 9 * 60 [] shift = "9pm to 6am" -> 21 * 60

EndMinuteOf(shift) ==
  CASE shift = "9am to 5pm" -> 17 * 60 [] shift = "9pm to 6am" -> 6 * 60

\* instant t lies in the window of the shift on the day of t: from the start
\* time on that day to the end time on that day, or on the next day when the
\* end time is before the start time, both ends included
InWindow(shift, t) ==
  LET start == DayOf(t) * MinutesPerDay + StartMinuteOf(shift)
      end == DayOf(t) * MinutesPerDay + EndMinuteOf(shift)
               + (IF EndMinuteOf(shift) < StartMinuteOf(shift)
                    THEN MinutesPerDay ELSE 0)
  IN  start <= t /\ t <= end

\* C17: with readable shifts on the documents it can locate,
\* updateLiveLocation records the ping only on a document whose window
\* [shiftStart, shiftEnd] contains now, ends included, and answers shift
\* inactive, changing nothing, only for a document whose window does not.
C17_LiveWindowInclusive ==
  [][\A b \in Badges, pg \in LivePings :
       ( /\ ActiveCovering(duties, b, now) # {}
         /\ \A d \in ActiveCovering(duties, b, now) :
              d.shift \in {"9am to 5pm", "9pm to 6am"}
         /\ UpdateLiveLocation(b, pg[1], pg[2]) )
       => /\ resp'.message \in {MsgLiveUpdated, MsgShiftOver}
          /\ resp'.message = MsgLiveUpdated
               => \E d \in ActiveCovering(duties, b, now) :
                    /\ InWindow(d.shift, now)
                    /\ duties' = (duties (-) SetToBag({d})) (+)
                         SetToBag({[d EXCEPT !.livexCoord = pg[1],
                                             !.liveyCoord = pg[2]]})
          /\ resp'.message = MsgShiftOver
               => /\ \E d \in ActiveCovering(duties, b, now) :
                       ~InWindow(d.shift, now)
                  /\ duties' = duties]_vars

\* a ping was recorded on the overnight duty at 21:00, the first minute of
\* its window, whose end lies on the next day
C17_Witness ==
  /\ resp.message = MsgLiveUpdated
  /\ now = NewDate(DateTime(1, 21 * 60))
  /\ \E d \in BagToSet(duties) :
       d.shift = "9pm to 6am" /\ d.livexCoord # NoCoord

\* C18: a successful updateLiveLocation sets livexCoord and liveyCoord of
\* one located document to the reported values and changes nothing else:
\* status, remarks and every other document stay, no document is added, and
\* a call that reports the coordinates already stored leaves the collection
\* as it was.
C18_LiveSetsOnlyCoordinates ==
  [][\A b \in Badges, pg \in LivePings :
       ( /\ resp'.message = MsgLiveUpdated
         /\ UpdateLiveLocation(b, pg[1], pg[2]) )
       => /\ \E d \in ActiveCovering(duties, b, now) :
               /\ duties' = (duties (-) SetToBag({d})) (+)
                    SetToBag({[d EXCEPT !.livexCoord = pg[1],
                                        !.liveyCoord = pg[2]]})
               /\ (d.livexCoord = pg[1] /\ d.liveyCoord = pg[2])
                    => duties' = duties
          /\ BagCardinality(duties') = BagCardinality(duties)]_vars

\* a ping was recorded on a document that kept its status and its remarks
C18_Witness ==
  /\ resp.message = MsgLiveUpdated
  /\ \E d \in BagToSet(duties) :
       /\ d.livexCoord = 3 /\ d.liveyCoord = 7
       /\ d.status = "Active" /\ d.remarks = "assigned"

----------------------------------------------------------------------------
(* The current duty of the dashboard *)

\* the first and the last hour of the shifts of the dashboard duties
StartHourOf(shift) ==
  CASE shift = "9am to 5pm" -> 9 [] shift = "9pm to 6am" -> 21
    [] shift = "12am to 6am" -> 0 [] shift = "12pm to 5pm" -> 12

EndHourOf(shift) ==
  CASE shift = "9am to 5pm" -> 17 [] shift = "9pm to 6am" -> 6
    [] shift = "12am to 6am" -> 6 [] shift = "12pm to 5pm" -> 17

\* the hour h lies in the window of the shift
HourInWindow(shift, h) ==
  IF StartHourOf(shift) <= EndHourOf(shift)
    THEN StartHourOf(shift) <= h /\ h <= EndHourOf(shift)
    ELSE h >= StartHourOf(shift) \/ h <= EndHourOf(shift)

\* the officer's documents dated on the day of t whose window contains the
\* hour of t
SameDayMatches(store, batchNo, t) ==
  { d \in DutiesOfBadge(store, batchNo) :
      DayOf(d.dutyDate) = DayOf(t) /\ HourInWindow(d.shift, HourOf(t)) }

\* C19: when the officer has a document dated today whose shift window
\* contains the current hour, the dashboard returns such a document, and a
\* document dated after today only when there is none.
C19_SameDayMatchWins ==
  [][\A b \in Badges :
       (SameDayMatches(duties, b, now) # {} /\ Dashboard(b))
       => \E d \in SameDayMatches(duties, b, now) :
            resp'.location = d.location]_vars

\* the document qualifies as current: dated after today, or dated today with
\* the current hour in its window
Qualifies(d, t) ==
  \/ DayOf(d.dutyDate) > DayOf(t)
  \/ DayOf(d.dutyDate) = DayOf(t) /\ HourInWindow(d.shift, HourOf(t))

----------------------------------------------------------------------------
(* The two readers of the shift *)

\* the number of the officer's documents with status Active
ActiveCount(store, batchNo) ==
  BagCardinality(
    [d \in { e \in DutiesOfBadge(store, batchNo) : e.status = "Active" }
       |-> CopiesIn(d, store)])

\* C21: the dashboard discards a document on shift grounds exactly when
\* parseShift fails on its shift: a document dated after today, which no
\* date or hour test can discard, is current if and only if parseShift reads
\* its shift; and activeDuties counts every Active document, current or not.
C21_ResolverFollowsParseShift ==
  [][\A b \in Badges :
       Dashboard(b)
       => /\ \A d \in DutiesOfBadge(duties, b) :
               DayOf(d.dutyDate) > DayOf(now)
               => (IsCurrentDuty(d, now) <=> parseShift(d.shift).valid)
          /\ resp'.activeDuties = ActiveCount(duties, b)]_vars

----------------------------------------------------------------------------
(* Order of the requests *)

\* C22: conflict detection does not depend on the order of two requests of
\* one scope: with request A alone in the collection, request B is answered
\* with a conflict if and only if A would be answered with a conflict were B
\* alone in the collection.
C22_ConflictIsSymmetric ==
  [][\A rA \in AssignBodies, rB \in AssignBodies :
       ( /\ duties = SetToBag({NewDuty(rA)})
         /\ ActiveBody(rA) /\ ActiveBody(rB)
         /\ ScopeOf(rA) = ScopeOf(rB)
         /\ AssignDuty(rB) )
       => ( IsConflict(resp')
              <=> ConflictDocs(SetToBag({NewDuty(rB)}), rA) # {} )]_vars

----------------------------------------------------------------------------
(* Operations other than assignDuty and the overlap rule *)

\* C23: edit by id, delete by id, check-in and live location each lead from
\* a collection without two overlapping documents of one scope to a
\* collection without such documents.
C23_OtherOperationsKeepNoOverlap ==
  [][( /\ Overlapping(duties) = {}
       /\ resp'.op \in {"editDuty", "deleteDuty", "checkIn",
                        "updateLiveLocation"} )
     => Overlapping(duties') = {}]_vars

----------------------------------------------------------------------------
(* Check-in and live location on one document *)

CheckedInStatuses == {"on duty", "off duty"}

\* C24: a check-in that finds a document leaves it with status "on duty" or
\* "off duty", never "Active"; and while every document of an officer has
\* such a status, updateLiveLocation for that officer answers not found and
\* changes nothing.
C24_CheckedInIsNotTracked ==
  [][\A b \in Badges :
       /\ \A pg \in CheckInPings :
            ( /\ resp'.op = "checkIn"
              /\ DutiesOfBadge(duties, b) # {}
              /\ CheckIn(b, pg[1], pg[2], DateString(now)) )
            => \E duty \in DutiesOfBadge(duties, b),
                  saved \in BagToSet(duties') :
                 /\ CheckInStep(b, pg, duty, saved)
                 /\ saved.status \in CheckedInStatuses
       /\ ( /\ resp'.op = "updateLiveLocation"
            /\ DutiesOfBadge(duties, b) # {}
            /\ \A d \in DutiesOfBadge(duties, b) :
                 d.status \in CheckedInStatuses
            /\ UpdateLiveLocation(b, 0, 500) )
          => /\ resp'.code = 404
             /\ resp'.message = MsgActiveDutyNotFound
             /\ duties' = duties]_vars

\* live location was answered not found while both officers hold documents
\* and every document has been checked in
C24_Witness ==
  /\ resp.message = MsgActiveDutyNotFound
  /\ \A b \in Badges : DutiesOfBadge(duties, b) # {}
  /\ \A d \in BagToSet(duties) : d.status \in CheckedInStatuses

----------------------------------------------------------------------------
(* Which document live location locates *)

ReadableShifts == {"9am to 5pm", "9pm to 6am"}

\* C25: when the officer has an Active document that covers today and whose
\* shift window contains now, updateLiveLocation records the ping, whatever
\* other Active documents covering today the officer has.
C25_InShiftDutyIsRecorded ==
  [][\A b \in Badges, pg \in LivePings :
       ( /\ resp'.op = "updateLiveLocation"
         /\ \E d \in ActiveCovering(duties, b, now) :
              d.shift \in ReadableShifts /\ InWindow(d.shift, now)
         /\ UpdateLiveLocation(b, pg[1], pg[2]) )
       => resp'.message = MsgLiveUpdated]_vars

\* C28: a single duty that assignDuty accepted, dated today, with a readable
\* shift that contains now, and not changed since, is located by
\* updateLiveLocation, whichever of the accepted spellings of "active" its
\* status has.
C28_AcceptedDutyIsTracked ==
  [][\A b \in Badges, pg \in LivePings :
       ( /\ resp'.op = "updateLiveLocation"
         /\ \E d \in DutiesOfBadge(duties, b) :
              /\ DutiesOfBadge(duties, b) = {d}
              /\ CopiesIn(d, duties) = 1
              /\ d.dutyType = "single"
              /\ d.status \in {"active", "Active", "ACTIVE"}
              /\ DayOf(d.dutyDate) = DayOf(now)
              /\ d.shift \in ReadableShifts
              /\ InWindow(d.shift, now)
              /\ d.livexCoord = NoCoord /\ d.remarks = "assigned"
         /\ UpdateLiveLocation(b, pg[1], pg[2]) )
       => resp'.message = MsgLiveUpdated]_vars

----------------------------------------------------------------------------
(* The overnight shift and the two views *)

\* the only document of the officer is d, a single Active duty with the
\* overnight shift from 9pm to 6am
OnlyOvernightDuty(store, badgeNumber, d) ==
  /\ DutiesOfBadge(store, badgeNumber) = {d}
  /\ CopiesIn(d, store) = 1
  /\ d.dutyType = "single"
  /\ d.status = "Active"
  /\ d.shift = "9pm to 6am"

\* C26: for an officer whose only document is a single Active duty dated D
\* with an overnight shift, updateLiveLocation records a ping exactly from
\* the start time of the shift to the end of day D; before the start time on
\* day D it answers shift inactive, on every other day not found, and the
\* hours of the shift after midnight are never recorded.
C26_OvernightStopsAtMidnight ==
  [][\A b \in Badges :
       \A d \in DutiesOfBadge(duties, b) :
         ( /\ resp'.op = "updateLiveLocation"
           /\ OnlyOvernightDuty(duties, b, d)
           /\ UpdateLiveLocation(b, 3, 7) )
         => /\ (resp'.message = MsgLiveUpdated)
                 <=> /\ DayOf(now) = DayOf(d.dutyDate)
                     /\ now % MinutesPerDay >= 21 * 60
            /\ (DayOf(now) = DayOf(d.dutyDate) /\ now % MinutesPerDay < 21 * 60)
                 => resp'.message = MsgShiftOver /\ duties' = duties
            /\ DayOf(now) # DayOf(d.dutyDate)
                 => resp'.message = MsgActiveDutyNotFound /\ duties' = duties
     ]_vars

\* at 03:00 of day 1 the only stored document, the overnight duty of day 1,
\* was answered shift inactive
C26_Witness ==
  /\ resp.message = MsgShiftOver
  /\ now = NewDate(DateTime(1, 3 * 60))
  /\ \E d \in BagToSet(duties) :
       /\ duties = SetToBag({d})
       /\ OnlyOvernightDuty(duties, d.badgeNumber, d)
       /\ DayOf(d.dutyDate) = 1

\* C27: whenever updateLiveLocation records a ping for an officer, the
\* dashboard of that officer at the same instant has a current duty.
C27_ViewsAgree ==
  [][\A b \in Badges :
       (resp'.message = MsgLiveUpdated /\ UpdateLiveLocation(b, 3, 7))
       => currentDuty(duties', b, now) # {}]_vars

----------------------------------------------------------------------------
(* The fields of the current duty *)

\* C29: when the dashboard has a current duty, the location and the
\* coordinates of the response are those of that document, also for a
\* document located at coordinate 0.
C29_ResponseCarriesDutyFields ==
  [][\A b \in Badges :
       ( /\ resp'.op = "dashboard"
         /\ resp'.location # "No Active Duty"
         /\ Dashboard(b) )
       => \E d \in DutiesOfBadge(duties, b) :
            /\ IsCurrentDuty(d, now)
            /\ resp'.location = d.location
            /\ resp'.xCoord = d.xCoord
            /\ resp'.yCoord = d.yCoord]_vars

----------------------------------------------------------------------------
(* C30: a mobile login succeeds only for an existing police user whose     *)
(* status is exactly "active" and whose password matches; a status patch   *)
(* succeeds only with "Active" or "Disabled" and stores that value; a user *)
(* whose status is not "active" never gets the status "active" again,      *)
(* whatever request follows, and every mobile login with the batch number  *)
(* of such a user is answered 403 "User is not active".                    *)
C30_PatchedUserStaysLockedOut ==
  [][ /\ \A b \in UserBatchNos, p \in UserPasswords :
           (resp'.op = "moblogin" /\ MobLogin(b, p)) =>
             /\ resp'.code = 200 <=>
                  \E u \in users.docs :
                    /\ u.batchNo = b
                    /\ u.status = "active"
                    /\ Compare(p, u.password)
             /\ (\E u \in users.docs : u.batchNo = b /\ u.status # "active")
                  => /\ resp'.code = 403
                     /\ resp'.message = "User is not active"
      /\ \A id \in UserIds, st \in UserStatuses :
           (resp'.op = "patchStatus" /\ resp'.code = 200
              /\ PatchStatus(id, st)) =>
             /\ st \in {"Active", "Disabled"}
             /\ \E u \in users'.docs : u.id = id /\ u.status = st
      /\ \A u \in users.docs :
           u.status # "active" =>
             \A v \in users'.docs : v.id = u.id => v.status # "active"
    ]_vars

\* a login with the right password answered 403 while every batch number
\* has a user whose status was patched to "Active"
C30_Witness ==
  /\ resp.op = "moblogin"
  /\ resp.code = 403
  /\ \A b \in Badges :
       \E u \in users.docs :
         /\ u.batchNo = b
         /\ u.status = "Active"
         /\ Compare("pw1", u.password)

============================================================================
